---- MODULE Spec2Model ----
(***************************************************************************)
(* Late Acceptance Hill Climbing engine (lahc/_lahc.py).                   *)
(*                                                                         *)
(* One LateAcceptanceHillClimber object, from before its construction to   *)
(* the return of its run() calls.  The problem is the one of lahc/tests.py *)
(* on integer points of the line y = 5: the state is a flat list [x, y],   *)
(* energy() is (x-2)^2 + (y-5)^2 and move() displaces the live state in    *)
(* place.  Energies are only ever compared, so integers stand for floats.  *)
(* Python objects live in a heap of cells, so that copies, aliases and     *)
(* in-place mutation are what they are in the interpreter.                 *)
(***************************************************************************)
EXTENDS Integers, Sequences, FiniteSets, TLC

\* ------------------------------------------------------------------ bounds
MaxX == 4               \* grid: x in 1 .. MaxX, on the line y = 5
MaxSteps == 3           \* iterations of the while loop explored per run
MaxRuns == 2            \* run() calls explored per engine
MaxHistory == 2         \* history_length in 1..MaxHistory
NCells == 7              \* heap cells (the objects alive at once)

\* --------------------------------------------------------------- universe
None == -1
Free == <<>>
Cells == 0 .. (NCells - 1)
Values == {<<x, 5>> : x \in 1 .. MaxX}
Strategies == {"deepcopy", "slice", "method", "bogus"}
\* idle_steps_fraction as <<numerator, denominator>> (exact binary floats)
Fractions == {<<0, 1>>, <<1, 2>>, <<1, 1>>}
StepsMinimums == {0, 1}
UpdateIntervals == {0, 1, 2}
TestFile == "test.state"
ExitFile == "date_LAHC.state"
FileNames == {TestFile, ExitFile}
Missing == <<>>
NoName == "<None>"     \* load_state=None
NoResult == <<>>        \* run() has not returned yet

VARIABLES
    pc,                  \* position of the caller / of run()
    error,               \* exception that left the last call, or "none"
    heap,                \* cell -> list value, Free when unreferenced
    fs,                  \* file name -> pickled bytes, Missing when absent
    initial_state,       \* caller's argument: a cell or None
    load_state,          \* caller's argument: a file name, "" or NoName
    state,               \* self.state
    step, step_idle,     \* self.step, self.step_idle
    best_state, best_energy, best_step,
    energy_history,      \* self.energy_history
    user_exit,           \* self.user_exit
    history_length, steps_min, idle_steps_fraction,
    updates_every, copy_strategy, save_state_on_exit,
    E, prev_state, prev_energy, trials,   \* locals of run()
    E_start,             \* the value of E computed at the start of run()
    result,              \* what the last run() returned: <<cell, energy>>
    updates,             \* calls of update() made by the current run()
    runs,                \* run() calls started so far
    caller,              \* the program: one engine, or a pair of engines
    saved,               \* self.state as save_state(fname) last pickled it
    other,               \* the second engine: "absent", or how it was built
    other_state,         \* the second engine's self.state (a list value)
    other_exit,          \* the second engine's self.user_exit
    sigint               \* whose set_user_exit handles SIGINT

engine == <<state, step, step_idle, best_state, best_energy, best_step,
            energy_history, user_exit>>
config == <<history_length, steps_min, idle_steps_fraction, updates_every,
            copy_strategy, save_state_on_exit>>
locals == <<E, prev_state, prev_energy, trials, E_start>>
pair == <<caller, saved, other, other_state, other_exit>>
vars == <<pc, error, heap, fs, initial_state, load_state, engine, config,
          locals, result, updates, runs, pair, sigint>>

\* ------------------------------------------------------------ the problem
\* tests.py LAHC.energy
energy(s) == (s[1] - 2) * (s[1] - 2) + (s[2] - 5) * (s[2] - 5)

\* ---------------------------------------------------------------- objects
Alloc(roots) ==
    CHOOSE c \in Cells : c \notin roots /\ \A d \in Cells \ roots : c <= d

\* Object identity is unobservable, so the heap is kept compact: the cells
\* referenced by refs (in that order) become cells 0, 1, 2, ... and every
\* other cell is Free.
Rank(refs, c) ==
    LET first == CHOOSE i \in 1 .. Len(refs) :
                    refs[i] = c /\ \A j \in 1 .. (i - 1) : refs[j] # c
    IN Cardinality({refs[j] : j \in 1 .. (first - 1)} \ {None})

Rename(refs, c) == IF c = None THEN None ELSE Rank(refs, c)

Compact(h, refs) ==
    [k \in Cells |->
       IF \E i \in 1 .. Len(refs) : refs[i] # None /\ Rank(refs, refs[i]) = k
       THEN h[CHOOSE c \in Cells :
                 \E i \in 1 .. Len(refs) : refs[i] = c /\ Rank(refs, c) = k]
       ELSE Free]

\* the references after a step: the caller's list, the returned best state
\* (r is NoResult or <<cell, energy>>), self.state, prev_state,
\* self.best_state; objects without a reference are gone
Store(h, r, s, p, b) ==
    \E refs \in {<<initial_state, IF r = NoResult THEN None ELSE r[1],
                    s, p, b>>} :
       /\ heap' = Compact(h, refs)
       /\ initial_state' = Rename(refs, refs[1])
       /\ result' = IF r = NoResult THEN NoResult
                    ELSE <<Rename(refs, refs[2]), r[2]>>
       /\ state' = Rename(refs, refs[3])
       /\ prev_state' = Rename(refs, refs[4])
       /\ best_state' = Rename(refs, refs[5])

\* copy_state does not know the strategy
CopyRaises == copy_strategy \notin {"deepcopy", "slice", "method"}

copy_state_alias(h, src, roots) == [ref |-> src, heap |-> h]

\* a slice that is a view of the object it is taken from
copy_state_view(h, src, roots) ==
    IF copy_strategy = "slice"
    THEN [ref |-> src, heap |-> h]
    ELSE [ref |-> Alloc(roots), heap |-> [h EXCEPT ![Alloc(roots)] = h[src]]]

\* copy_state on a flat list: each strategy builds a new list object
copy_state(h, src, roots) ==
    IF copy_strategy = "deepcopy"
    THEN [ref |-> Alloc(roots), heap |-> [h EXCEPT ![Alloc(roots)] = h[src]]]
    ELSE IF copy_strategy = "slice"
    THEN [ref |-> Alloc(roots),
          heap |-> [h EXCEPT ![Alloc(roots)] = SubSeq(h[src], 1, Len(h[src]))]]
    ELSE [ref |-> Alloc(roots), heap |-> [h EXCEPT ![Alloc(roots)] = h[src]]]

\* pickle.dump / pickle.load of a flat list: a length-prefixed stream
Pickle(s) == <<Len(s)>> \o s
Unpickle_shift(b) == SubSeq(b, 1, b[1])
Unpickle(b) == SubSeq(b, 2, 1 + b[1])

\* the list a test.state written earlier holds
StoredValue == <<MaxX, 5>>

\* the lists callers start from: the optimum and the far end
InitialValues == {<<2, 5>>, <<MaxX, 5>>}

\* references the caller of the engine holds
CallerRoots == {initial_state} \cup (IF result = NoResult THEN {} ELSE {result[1]})

\* ------------------------------------------------------------------- Init
\* nothing is constructed yet; the caller holds the list it will pass
InitBlank ==
    /\ pc = "none"
    /\ error = "none"
    /\ state = None
    /\ step = None /\ step_idle = None
    /\ best_state = None /\ best_energy = None /\ best_step = None
    /\ energy_history = <<>>
    /\ user_exit = FALSE
    /\ E = None /\ prev_state = None /\ prev_energy = None /\ trials = 0
    /\ E_start = None
    /\ result = NoResult
    /\ updates = 0
    /\ runs = 0
    /\ saved = Free
    /\ other = "absent" /\ other_state = Free /\ other_exit = FALSE
    /\ sigint = "default"
    /\ \E s \in InitialValues :
         heap = [c \in Cells |->
                   IF c = 0 /\ initial_state = 0 THEN s ELSE Free]

NoFiles == [f \in FileNames |-> Missing]
OneFile == [f \in FileNames |-> IF f = TestFile THEN Pickle(StoredValue)
                                ELSE Missing]

\* every way of calling the constructor, for one setting of the attributes
InitArguments ==
    /\ initial_state \in {None, 0}
    /\ load_state \in {NoName, "", TestFile}
    /\ fs \in {NoFiles, OneFile}
    /\ copy_strategy \in Strategies
    /\ save_state_on_exit = FALSE
    /\ history_length = 1
    /\ steps_min = 0
    /\ idle_steps_fraction = <<1, 2>>
    /\ updates_every = 1
    /\ caller = "single"

\* a program with two engines, as test_save_load_state: the first built
\* from a list, the second from that list or from a file the first saved
InitPair ==
    /\ initial_state = 0 /\ load_state = NoName /\ fs = NoFiles
    /\ copy_strategy = "deepcopy" /\ save_state_on_exit = FALSE
    /\ history_length = 1
    /\ steps_min = 0
    /\ idle_steps_fraction = <<1, 2>>
    /\ updates_every = 1
    /\ caller = "pair"

\* every setting of the search attributes, the engine built from
\* initial_state as in tests.py or from a file saved earlier
InitSearch ==
    /\ \/ /\ initial_state = 0 /\ load_state = NoName /\ fs = NoFiles
          /\ \E a \in {<<"deepcopy", FALSE>>, <<"deepcopy", TRUE>>,
                       <<"slice", FALSE>>, <<"method", FALSE>>} :
               copy_strategy = a[1] /\ save_state_on_exit = a[2]
       \/ /\ initial_state = None /\ load_state = TestFile /\ fs = OneFile
          /\ copy_strategy = "deepcopy" /\ save_state_on_exit = FALSE
    /\ history_length \in 1 .. MaxHistory
    /\ steps_min \in StepsMinimums
    /\ idle_steps_fraction \in Fractions
    /\ updates_every \in UpdateIntervals
    /\ caller = "single"

Init == (InitArguments \/ InitSearch \/ InitPair) /\ InitBlank

\* --------------------------------------------------------------- __init__
StateSource_loadfirst(init, load) ==
    IF load # NoName /\ load # "" THEN "load"
    ELSE IF init # None THEN "initial"
    ELSE "neither"

\* the if / elif / else of __init__
StateSource(init, load) ==
    IF init # None THEN "initial"
    ELSE IF load # NoName /\ load # "" THEN "load"
    ELSE "neither"

\* LateAcceptanceHillClimber(initial_state, load_state)
Construct ==
    /\ pc = "none"
    /\ IF StateSource(initial_state, load_state) = "initial"
       THEN IF CopyRaises
            THEN /\ pc' = "error" /\ error' = "RuntimeError"
                 /\ UNCHANGED <<heap, initial_state, result, state,
                                prev_state, best_state, user_exit, sigint>>
            ELSE \E c \in {copy_state(heap, initial_state, CallerRoots)} :
                    /\ Store(c.heap, result, c.ref, prev_state, best_state)
                    /\ user_exit' = FALSE
                    /\ pc' = "ready" /\ error' = "none"
                    /\ sigint' = "self"
       ELSE IF StateSource(initial_state, load_state) = "load"
            THEN IF fs[load_state] = Missing
                 THEN /\ pc' = "error" /\ error' = "IOError"
                      /\ UNCHANGED <<heap, initial_state, result, state,
                                     prev_state, best_state, user_exit, sigint>>
                 ELSE \E c \in {Alloc(CallerRoots)} :
                         /\ Store([heap EXCEPT ![c] = Unpickle(fs[load_state])],
                                  result, c, prev_state, best_state)
                         /\ user_exit' = FALSE
                         /\ pc' = "ready" /\ error' = "none"
                         /\ sigint' = "self"
            ELSE /\ pc' = "error" /\ error' = "ValueError"
                 /\ UNCHANGED <<heap, initial_state, result, state,
                                prev_state, best_state, user_exit, sigint>>
    /\ UNCHANGED <<pair, fs, load_state, step, step_idle, best_energy, best_step,
                   energy_history, config, E, prev_energy, trials, E_start,
                   updates, runs>>

\* ----------------------------------------------------------- set_user_exit
\* SIGINT while the handler installed by this engine's __init__ is the
\* registered one
SetUserExit ==
    /\ pc \notin {"none", "error"}
    /\ sigint = "self"
    /\ user_exit' = TRUE
    /\ UNCHANGED <<pair, sigint, pc, error, heap, fs, initial_state, load_state, state,
                   step, step_idle, best_state, best_energy, best_step,
                   energy_history, config, locals, result, updates, runs>>

\* ------------------------------------------------------- terminate_search
terminate_search_ge ==
    /\ step >= steps_min
    /\ step_idle * idle_steps_fraction[2] > step * idle_steps_fraction[1]

terminate_search_whole ==
    /\ step > steps_min
    /\ step_idle > step

terminate_search ==
    /\ step > steps_min
    /\ step_idle * idle_steps_fraction[2] > step * idle_steps_fraction[1]

LoopContinues_noexit == ~terminate_search

\* the condition of the while loop, line 144
LoopContinues == ~terminate_search /\ ~user_exit

\* -------------------------------------------------------------------- run
RunRoots == CallerRoots \cup {state, prev_state, best_state}

\* run(), lines 127-142: counters, snapshots, history, first update
RunSetup ==
    /\ pc \in {"ready", "done"}
    /\ runs < MaxRuns
    /\ runs' = runs + 1
    /\ step' = 0
    /\ step_idle' = 0
    /\ E' = energy(heap[state])
    /\ IF CopyRaises
       THEN /\ pc' = "raised" /\ error' = "RuntimeError"
            /\ UNCHANGED <<heap, initial_state, result, state, prev_state,
                           prev_energy, best_state, best_energy, best_step,
                           energy_history, trials, E_start, updates>>
       ELSE \E e0 \in {energy(heap[state])},
               p \in {copy_state(heap, state, RunRoots)} :
            \E b \in {copy_state(p.heap, state, RunRoots \cup {p.ref})} :
               /\ E_start' = e0
               /\ prev_energy' = e0
               /\ best_energy' = e0
               /\ best_step' = 0
               /\ energy_history' = [i \in 1 .. history_length |-> e0]
               /\ trials' = 0
               /\ updates' = 1
               /\ Store(b.heap, result, state, p.ref, b.ref)
               /\ pc' = "while" /\ error' = "none"
    /\ UNCHANGED <<pair, sigint, fs, load_state, user_exit, config>>

\* line 144, the loop continues
WhileEnter ==
    /\ pc = "while"
    /\ LoopContinues
    /\ step < MaxSteps
    /\ pc' = "move"
    /\ UNCHANGED <<pair, sigint, error, heap, fs, initial_state, load_state, engine,
                   config, locals, result, updates, runs>>

\* line 144, the loop ends
WhileExit ==
    /\ pc = "while"
    /\ ~LoopContinues
    /\ pc' = "exit"
    /\ UNCHANGED <<pair, sigint, error, heap, fs, initial_state, load_state, engine,
                   config, locals, result, updates, runs>>

Idle_tie(Ec, Ep, n) == IF Ec > Ep THEN n + 1 ELSE 0

\* the idle bookkeeping of lines 149-152
Idle(Ec, Ep, n) == IF Ec >= Ep THEN n + 1 ELSE 0

\* lines 145-152: move(), energy(), idle bookkeeping
Move ==
    /\ pc = "move"
    /\ \E s \in Values :
         /\ heap' = [heap EXCEPT ![state] = s]
         /\ E' = energy(s)
         /\ step_idle' = Idle(energy(s), prev_energy, step_idle)
    /\ trials' = trials + 1
    /\ pc' = "accept"
    /\ UNCHANGED <<pair, sigint, error, fs, initial_state, load_state, state, step,
                   best_state, best_energy, best_step, energy_history,
                   user_exit, config, prev_state, prev_energy, E_start,
                   result, updates, runs>>

Accepts_strict(Ec, Hv, Ep) == Ec < Hv \/ Ec < Ep

\* the acceptance test of line 155
Accepts(Ec, Hv, Ep) == Ec < Hv \/ Ec <= Ep

Improves_always(Ec, Eb) == TRUE

Improves_tie(Ec, Eb) == Ec <= Eb

\* the best-state test of line 159
Improves(Ec, Eb) == Ec < Eb

Record_always(hist, v, e) == [hist EXCEPT ![v + 1] = e]

Record_never(hist, v, e) == hist

Record_shift(hist, v, e) ==
    [hist EXCEPT ![((v + 1) % Len(hist)) + 1] = IF e < @ THEN e ELSE @]

\* the history update of lines 167-168
Record(hist, v, e) ==
    IF e < hist[v + 1] THEN [hist EXCEPT ![v + 1] = e] ELSE hist

Restored_kept(Ec, Ep) == Ec

\* the energy of the step after the restore of lines 165-166
Restored(Ec, Ep) == Ep

\* lines 154-168: accept or restore, then the history update
Accept ==
    /\ pc = "accept"
    /\ LET v == step % history_length
           Hv == energy_history[v + 1]
       IN IF Accepts(E, Hv, prev_energy)
          THEN \E p \in {copy_state(heap, state, RunRoots)} :
               \E b \in {copy_state(p.heap, state, RunRoots \cup {p.ref})} :
                  /\ prev_energy' = E
                  /\ IF Improves(E, best_energy)
                     THEN /\ best_energy' = E
                          /\ best_step' = step
                          /\ Store(b.heap, result, state, p.ref, b.ref)
                     ELSE /\ UNCHANGED <<best_energy, best_step>>
                          /\ Store(p.heap, result, state, p.ref, best_state)
                  /\ energy_history' = Record(energy_history, v, E)
                  /\ E' = E
          ELSE \E s \in {copy_state(heap, prev_state, RunRoots)} :
                  /\ Store(s.heap, result, s.ref, prev_state, best_state)
                  /\ E' = Restored(E, prev_energy)
                  /\ energy_history' =
                        Record(energy_history, v, Restored(E, prev_energy))
                  /\ UNCHANGED <<prev_energy, best_energy, best_step>>
    /\ pc' = "advance"
    /\ UNCHANGED <<pair, sigint, error, fs, load_state, step, step_idle, user_exit, config,
                   trials, E_start, updates, runs>>

ReportDue_early(t, k) == t = k - 1

\* the test of line 170
ReportDue(t, k) == t = k

\* lines 169-172: count the step, update() every updates_every trials
Advance ==
    /\ pc = "advance"
    /\ step' = step + 1
    /\ IF ReportDue(trials, updates_every)
       THEN /\ updates' = updates + 1
            /\ trials' = 0
       ELSE UNCHANGED <<updates, trials>>
    /\ pc' = "while"
    /\ UNCHANGED <<pair, sigint, error, heap, fs, initial_state, load_state, state,
                   step_idle, best_state, best_energy, best_step,
                   energy_history, user_exit, config, E, prev_state,
                   prev_energy, E_start, result, runs>>

Final_prev(b, p) == p

\* the snapshot line 173 makes the live state
Final(b, p) == b

\* lines 173-178: the live state becomes the best one, save, return
Teardown ==
    /\ pc = "exit"
    /\ \E s \in {copy_state(heap, Final(best_state, prev_state), RunRoots)} :
          /\ Store(s.heap, <<best_state, best_energy>>, s.ref, None,
                   best_state)
          /\ fs' = IF save_state_on_exit
                   THEN [fs EXCEPT ![ExitFile] = Pickle(s.heap[s.ref])]
                   ELSE fs
    /\ pc' = "done"
    /\ UNCHANGED <<pair, sigint, error, load_state, step, step_idle, best_energy,
                   best_step, energy_history, user_exit, config, E,
                   prev_energy, trials, E_start, updates, runs>>

\* ---------------------------------------------------- save_state(fname)
\* solver.save_state(fname="test.state"), between the calls of run()
SaveState ==
    /\ caller = "pair"
    /\ pc \in {"ready", "done"}
    /\ fs' = [fs EXCEPT ![TestFile] = Pickle(heap[state])]
    /\ saved' = heap[state]
    /\ UNCHANGED <<pc, error, heap, initial_state, load_state, engine, config,
                   locals, result, updates, runs, caller, other, other_state,
                   other_exit, sigint>>

\* ------------------------------------------------------ the second engine
\* solver2 = LAHC(x0): __init__ copies the list and installs its handler
ConstructOther ==
    /\ caller = "pair" /\ other = "absent"
    /\ initial_state # None /\ ~CopyRaises
    /\ other_state' = heap[initial_state]
    /\ other' = "initial"
    /\ other_exit' = FALSE
    /\ sigint' = "other"
    /\ UNCHANGED <<pc, error, heap, fs, initial_state, load_state, engine,
                   config, locals, result, updates, runs, caller, saved>>

\* solver2 = LAHC(load_state="test.state"): __init__ unpickles the file
\* and installs its handler
LoadOther ==
    /\ caller = "pair" /\ other = "absent"
    /\ fs[TestFile] # Missing
    /\ other_state' = Unpickle(fs[TestFile])
    /\ other' = "load"
    /\ other_exit' = FALSE
    /\ sigint' = "other"
    /\ UNCHANGED <<pc, error, heap, fs, initial_state, load_state, engine,
                   config, locals, result, updates, runs, caller, saved>>

\* SIGINT while the second engine's handler is the registered one
InterruptOther ==
    /\ sigint = "other"
    /\ other_exit' = TRUE
    /\ UNCHANGED <<pc, error, heap, fs, initial_state, load_state, engine,
                   config, locals, result, updates, runs, caller, saved,
                   other, other_state, sigint>>

Next ==
    \/ SaveState
    \/ ConstructOther
    \/ LoadOther
    \/ InterruptOther
    \/ Construct
    \/ SetUserExit
    \/ RunSetup
    \/ WhileEnter
    \/ WhileExit
    \/ Move
    \/ Accept
    \/ Advance
    \/ Teardown

Spec == Init /\ [][Next]_vars

InitFair ==
    /\ \/ /\ InitSearch
          /\ initial_state # None
          /\ copy_strategy = "deepcopy" /\ save_state_on_exit = FALSE
          /\ updates_every = 1
       \/ InitPair
    /\ InitBlank

\* run() is synchronous code: once called it executes statement after
\* statement (move() and energy() return)
RunStep == WhileEnter \/ WhileExit \/ Move \/ Accept \/ Advance \/ Teardown

FairSpec == InitFair /\ [][Next]_vars /\ WF_vars(RunStep)

\* ----------------------------------------------------------- vocabulary
Running == pc \in {"while", "move", "accept", "advance", "exit"}
InRun == Running \/ pc = "done"
\* the step that executes lines 154-168
AcceptStep == pc = "accept" /\ pc' = "advance"
\* the step that executes lines 127-142 without raising
SetupStep == runs' = runs + 1 /\ pc' = "while"
\* the step that runs __init__
ConstructStep == pc = "none" /\ pc' # "none"
\* the slot of the current step
SlotNow == energy_history[(step % history_length) + 1]
\* what the accept branch does: the candidate stays the live state and
\* becomes the previous-accepted snapshot
AcceptEffect ==
    /\ heap'[state'] = heap[state]
    /\ heap'[prev_state'] = heap[state]
    /\ prev_energy' = E
    /\ E' = E
\* what the else branch does: the live state is the previous-accepted
\* snapshot again, which stays, and E is its energy
RejectEffect ==
    /\ heap'[state'] = heap[prev_state]
    /\ heap'[prev_state'] = heap[prev_state]
    /\ prev_energy' = prev_energy
    /\ E' = prev_energy
    /\ heap[state] # heap[prev_state]

\* ----------------------------------------------------------------- claims

\* C1: in every iteration the candidate is accepted if and only if
\* Ec < Hv or Ec <= previous_energy, Hv being the slot step mod
\* history_length read before any update; otherwise it is rejected.
C1_AcceptanceRule ==
    [][AcceptStep =>
         IF E < SlotNow \/ E <= prev_energy THEN AcceptEffect
         ELSE RejectEffect]_vars

\* a candidate worse than the last accepted state has been accepted late
C1_Witness ==
    /\ pc = "advance" /\ step_idle >= 1
    /\ prev_energy > best_energy /\ prev_energy = E
    /\ heap[prev_state] = heap[state]

\* C2: best_energy starts at the energy of the initial state, never
\* increases from one iteration to the next, and so never exceeds the
\* energy of the initial state, up to and including the return.
C2_BestNeverWorse ==
    /\ [](InRun => best_energy <= E_start)
    /\ [](InRun /\ runs = 1 /\ initial_state # None
            => best_energy <= energy(heap[initial_state]))
    /\ [][SetupStep => /\ best_energy' = energy(heap[state])
                       /\ E_start' = energy(heap[state])]_vars
    /\ [][InRun /\ InRun' /\ runs' = runs
            => best_energy' <= best_energy]_vars

\* a run returned a best energy below its starting energy
C2_Witness ==
    /\ pc = "done" /\ best_energy < E_start
    /\ result = <<best_state, best_energy>>

\* C3: the returned energy is the energy of the returned state, and at
\* every iteration boundary best_energy is the energy of the best_state
\* snapshot.
C3_BestEnergyOfBestState ==
    /\ result # NoResult => energy(heap[result[1]]) = result[2]
    /\ pc = "done" => result = <<best_state, best_energy>>
    /\ pc \in {"while", "exit", "done"}
         => energy(heap[best_state]) = best_energy

\* the best snapshot was taken, then the live state moved on and the run
\* returned
C3_Witness ==
    /\ pc = "done" /\ result # NoResult
    /\ best_energy < E_start
    /\ step > best_step + 1
    /\ energy(heap[result[1]]) = result[2]

\* C4: the history buffer has exactly history_length slots, every slot is
\* initialised to the run's starting energy, and no slot value ever
\* increases during the run.
C4_HistoryNonIncreasing ==
    /\ [](InRun => Len(energy_history) = history_length)
    /\ [][SetupStep =>
            \A i \in 1 .. history_length :
               energy_history'[i] = energy(heap[state])]_vars
    /\ [][InRun /\ InRun' /\ runs' = runs =>
            /\ Len(energy_history') = Len(energy_history)
            /\ \A i \in 1 .. history_length :
                  energy_history'[i] <= energy_history[i]]_vars

\* a slot was lowered while another still holds the starting energy
C4_Witness ==
    /\ pc = "advance" /\ history_length >= 2
    /\ \E i, j \in 1 .. history_length :
          energy_history[i] < E_start /\ energy_history[j] = E_start

\* C5: without cancellation the loop stops at the first boundary where
\* step > steps_minimum and idle_steps > step * idle_steps_fraction and
\* continues at every boundary where this is false; with both parameters 0
\* iterations are performed only while idle_steps = 0.
C5_DefaultTermination ==
    /\ [][pc = "while" /\ ~user_exit /\ pc' # pc =>
            IF /\ step > steps_min
               /\ step_idle * idle_steps_fraction[2]
                    > step * idle_steps_fraction[1]
            THEN pc' = "exit" ELSE pc' = "move"]_vars
    /\ [](steps_min = 0 /\ idle_steps_fraction[1] = 0 /\ pc = "move"
            => step_idle = 0)
    /\ [][steps_min = 0 /\ idle_steps_fraction[1] = 0 /\ pc = "while"
          /\ step_idle > 0 /\ pc' # pc => pc' = "exit"]_vars

\* with both parameters 0 the loop ended, uncancelled, right after the
\* first idle iteration, which was not the first iteration
C5_Witness ==
    /\ pc = "exit" /\ ~user_exit
    /\ steps_min = 0 /\ idle_steps_fraction[1] = 0
    /\ step >= 2 /\ step_idle = 1

\* C6: once the cancellation flag is set during run(), the iteration in
\* progress is completed, the next loop-boundary check starts no further
\* iteration, and run() returns, without error, the best pair found.
C6_Cancellation ==
    /\ [][user_exit /\ pc = "while" /\ pc' # pc => pc' = "exit"]_vars
    /\ [][user_exit /\ pc \in {"while", "exit"} =>
            \/ step' = step /\ heap'[state'] = heap[state]
            \/ pc' = "done"]_vars
    /\ [][pc = "exit" /\ pc' # pc =>
            /\ pc' = "done" /\ error' = "none"
            /\ result' = <<best_state', best_energy>>
            /\ best_energy' = best_energy
            /\ heap'[best_state'] = heap[best_state]]_vars
    /\ (Running /\ user_exit) ~> (pc = "done")

\* a run cancelled after its first iteration began returned before its
\* termination predicate held
C6_Witness ==
    /\ pc = "done" /\ user_exit /\ ~terminate_search
    /\ step >= 1 /\ step < MaxSteps
    /\ result = <<best_state, best_energy>>

C8_FreshEngineState ==
    [][SetupStep =>
         /\ step' = 0 /\ step_idle' = 0
         /\ heap'[best_state'] = heap[state]
         /\ best_energy' = energy(heap[state]) /\ best_step' = 0
         /\ energy_history' =
              [i \in 1 .. history_length |-> energy(heap[state])]
         /\ user_exit' = FALSE]_vars

\* C9: with updates_every = 0 the reporter callback update() is never
\* invoked during run(), neither in setup nor after any iteration.
C9_ReportingDisabled == updates_every = 0 /\ InRun => updates = 0

\* C10: with history_length = 1 the single slot equals previous_energy at
\* every iteration boundary, a candidate is accepted exactly when
\* Ec <= previous_energy, and the accepted energy never increases.
C10_GreedyHillClimber ==
    /\ [](history_length = 1 /\ pc \in {"while", "exit"}
            => energy_history[1] = prev_energy)
    /\ [][history_length = 1 /\ AcceptStep =>
            /\ IF E <= prev_energy THEN AcceptEffect ELSE RejectEffect
            /\ prev_energy' <= prev_energy]_vars

\* a greedy run that improved twice and rejected a worse candidate
C10_Witness ==
    /\ history_length = 1 /\ pc = "while" /\ step >= 3
    /\ prev_energy < E_start /\ best_step >= 1 /\ step_idle >= 1
    /\ energy_history[1] = prev_energy

\* ----------------------------------------------------------------- C11
\* a step in which the second engine is constructed with load_state
LoadStep == other = "absent" /\ other' = "load"

InterruptStep ==
    \/ ~user_exit /\ user_exit'
    \/ ~other_exit /\ other_exit'

\* C12: engines share nothing: constructing a second engine, before or
\* while the first one runs, leaves the first engine's cancellation as it
\* was, so an interrupt delivered while the first engine's run() is in
\* progress sets the first engine's user_exit.
C12_OwnCancellation ==
    [][Running /\ InterruptStep => user_exit']_vars

\* ----------------------------------------------------------------- C13
\* C13: a rejected candidate is undone: the live state is replaced by a
\* copy of the previous-accepted state and the energy of the step becomes
\* prev_energy; so at every iteration boundary, after the setup and after
\* each iteration, the live state equals the previous-accepted snapshot
\* and its energy is prev_energy.
C13_RestoreOnReject ==
    [][/\ AcceptStep /\ ~(E < SlotNow \/ E <= prev_energy) => RejectEffect
       /\ pc' = "while" =>
            /\ heap'[state'] = heap'[prev_state']
            /\ energy(heap'[state']) = prev_energy']_vars

\* a boundary after iterations that left the previous-accepted state as
\* it was, the live state equal to it
C13_Witness ==
    /\ pc = "while" /\ step >= 2 /\ step_idle = step
    /\ prev_energy = E_start /\ prev_energy > 0
    /\ heap[state] = heap[prev_state]
    /\ energy(heap[state]) = prev_energy

\* ----------------------------------------------------------------- C14
\* the energy of the step after the decision of line 155
Decided == IF E < SlotNow \/ E <= prev_energy THEN E ELSE prev_energy

\* C14: the iteration with step index s leaves in slot s mod history_length
\* the smaller of the slot's old value and the energy of the step after
\* the decision (the candidate's if accepted, prev_energy if rejected, so
\* a rejected step lowers the slot to prev_energy when that is below it),
\* and leaves every other slot as it was.
C14_SlotUpdate ==
    [][AcceptStep =>
         /\ Len(energy_history') = history_length
         /\ \A i \in 1 .. history_length :
               energy_history'[i] =
                 IF i = (step % history_length) + 1 /\ Decided < energy_history[i]
                 THEN Decided
                 ELSE energy_history[i]]_vars

\* the second slot was lowered to prev_energy by an iteration that did not
\* improve on it, the first slot as the first iteration left it
C14_Witness ==
    /\ pc = "advance" /\ history_length >= 2 /\ step = 1
    /\ step_idle = 1 /\ best_step = 0
    /\ prev_energy < E_start
    /\ energy_history[2] = prev_energy
    /\ E = prev_energy

\* ----------------------------------------------------------------- C15
\* the step that executes lines 145-152
MoveStep == pc = "move" /\ pc' = "accept"

\* C15: each iteration adds exactly 1 to the idle counter when the
\* candidate's energy is not below prev_energy as it stands before the
\* decision, and sets it to 0 when it is below; the decision to accept or
\* reject the candidate does not touch the counter.
C15_IdleCounter ==
    [][/\ MoveStep =>
            step_idle' = IF E' >= prev_energy THEN step_idle + 1 ELSE 0
       /\ InRun /\ InRun' /\ runs' = runs /\ ~MoveStep =>
            step_idle' = step_idle]_vars

\* a candidate with the energy of the previous-accepted state, but another
\* state, was counted idle right after another idle iteration
C15_Witness ==
    /\ pc = "accept" /\ E = prev_energy
    /\ heap[state] # heap[prev_state]
    /\ step_idle >= 2

\* ----------------------------------------------------------------- C16
\* the step that executes lines 169-172
AdvanceStep == pc = "advance" /\ pc' = "while"

\* C16: with updates_every = k >= 1, update() is called once during the
\* setup, with step 0, and then after an iteration exactly when the
\* incremented step counter is a positive multiple of k, whatever the
\* iteration decided; the step counter grows by exactly 1 per iteration.
C16_Reporting ==
    [][updates_every >= 1 =>
         /\ SetupStep => updates' = 1 /\ step' = 0
         /\ AdvanceStep =>
               /\ step' = step + 1
               /\ updates' = IF step' % updates_every = 0
                             THEN updates + 1 ELSE updates
         /\ InRun /\ InRun' /\ runs' = runs /\ ~AdvanceStep =>
               updates' = updates /\ step' = step]_vars

\* three iterations with updates_every = 2: the setup reported and the
\* second iteration did, the first and the third did not
C16_Witness ==
    /\ pc = "while" /\ updates_every = 2
    /\ step = 3 /\ updates = 2 /\ trials = 1

\* ----------------------------------------------------------------- C17
\* C17: with a copy strategy that fits the state, the live state, the
\* previous-accepted snapshot and the best snapshot are three objects;
\* move() changes neither snapshot; the previous-accepted snapshot changes
\* only by becoming a copy of the live state when a candidate is accepted,
\* the best snapshot only by becoming one when the candidate's energy is
\* strictly below best_energy.
C17_SnapshotsOwned ==
    /\ [](Running => /\ state # prev_state
                      /\ state # best_state
                      /\ prev_state # best_state)
    /\ [][MoveStep => /\ heap'[prev_state'] = heap[prev_state]
                       /\ heap'[best_state'] = heap[best_state]]_vars
    /\ [][Running /\ Running' /\ runs' = runs =>
            /\ heap'[prev_state'] # heap[prev_state] =>
                  /\ AcceptStep /\ (E < SlotNow \/ E <= prev_energy)
                  /\ heap'[prev_state'] = heap[state]
            /\ heap'[best_state'] # heap[best_state] =>
                  /\ AcceptStep /\ E < best_energy
                  /\ heap'[best_state'] = heap[state]]_vars

\* move() changed the live state while the two snapshots hold two other
\* states
C17_Witness ==
    /\ pc = "accept"
    /\ heap[state] # heap[prev_state]
    /\ heap[state] # heap[best_state]
    /\ heap[prev_state] # heap[best_state]
    /\ energy(heap[prev_state]) = prev_energy
    /\ energy(heap[best_state]) = best_energy

\* ----------------------------------------------------------------- C18
\* C18: at every iteration boundary best_energy is at most prev_energy and
\* at most every slot of the history; an iteration that replaces the best
\* tuple leaves the idle counter at 0 and records as best_step the step
\* index the iteration had before the increment.
C18_BestBelowAll ==
    /\ [](pc \in {"while", "exit"} =>
            /\ best_energy <= prev_energy
            /\ \A i \in 1 .. history_length :
                  best_energy <= energy_history[i])
    /\ [][AcceptStep /\ <<best_energy, best_step>>' # <<best_energy, best_step>>
            => /\ step_idle' = 0
               /\ best_step' = step
               /\ best_energy' = E]_vars

\* the second iteration replaced the best tuple while a slot of the
\* history and the previous iteration's best were above it
C18_Witness ==
    /\ pc = "advance" /\ step >= 1 /\ best_step = step
    /\ step_idle = 0
    /\ best_energy = prev_energy
    /\ \E i \in 1 .. history_length : best_energy < energy_history[i]

\* ----------------------------------------------------------------- C19
RECURSIVE Sum(_)
Sum(s) == IF s = <<>> THEN 0 ELSE Head(s) + Sum(Tail(s))

\* the number of energies energy() can return that are below e
Below(e) == Cardinality({energy(v) : v \in Values} \cap 0 .. (e - 1))

\* idle_steps_fraction < 1
FractionBelowOne == idle_steps_fraction[1] < idle_steps_fraction[2]

\* the runs whose last possible boundary lies within MaxSteps: no
\* iteration can improve, or the first idle boundary after steps_min ends
\* the run
WithinMaxSteps ==
    /\ Below(E_start) = 0 \/ idle_steps_fraction[1] = 0
    /\ steps_min + Below(E_start) + 1 <= MaxSteps

ReturnStep == pc = "exit" /\ pc' = "done"

\* C20: when run() has returned the live state is a copy of the best
\* state, so the next run() starts from the energy the previous run
\* returned, and the best energies successive runs return never increase.
C20_RunAgain ==
    /\ [](pc = "done" => /\ heap[state] = heap[best_state]
                          /\ state # best_state)
    /\ [][/\ SetupStep /\ result # NoResult => E_start' = result[2]
          /\ ReturnStep /\ result # NoResult => result'[2] <= result[2]]_vars

\* a second run started from what the first returned and returned a
\* better state still
C20_Witness ==
    /\ pc = "done" /\ runs >= 2 /\ initial_state # None
    /\ result[2] < E_start
    /\ E_start < energy(heap[initial_state])

\* ----------------------------------------------------------------- C21
\* C21: the engine works on its own copies: the list passed as
\* initial_state is changed neither by the constructor nor by any run(),
\* and the best state a run() returned is not changed by a later run() on
\* the same engine, up to the moment that run returns its own.
C21_OwnCopies ==
    [][/\ initial_state # None =>
            /\ initial_state' # None
            /\ heap'[initial_state'] = heap[initial_state]
       /\ result # NoResult /\ ~ReturnStep =>
            /\ result' # NoResult
            /\ heap'[result'[1]] = heap[result[1]]]_vars

\* move() of a second run changed the live state while the caller's list
\* and the state the first run returned hold two other values
C21_Witness ==
    /\ pc = "accept" /\ runs >= 2
    /\ initial_state # None /\ result # NoResult
    /\ heap[state] # heap[initial_state]
    /\ heap[state] # heap[result[1]]
    /\ heap[result[1]] # heap[initial_state]
    /\ energy(heap[result[1]]) = result[2]

TypeOK ==
    /\ caller \in {"single", "pair"}
    /\ other \in {"absent", "initial", "load"}
    /\ other_state \in Values \cup {Free}
    /\ saved \in Values \cup {Free}
    /\ other_exit \in BOOLEAN
    /\ sigint \in {"default", "self", "other"}
    /\ pc \in {"none", "error", "ready", "raised", "while", "move", "accept",
               "advance", "exit", "done"}
    /\ state \in Cells \cup {None}
    /\ state # None => heap[state] \in Values

====
